---- MODULE Spec2Model ----
(***************************************************************************)
(* Model of src/src/main.rs: the worker pool of ProcessingSystem::run, the *)
(* bounded mpsc channel between the workers and the aggregator loop, the   *)
(* net lock of ObjectDetectionTask, ImageSource's cursor and save_labels.  *)
(***************************************************************************)
EXTENDS Integers, Sequences, FiniteSets, TLC

(***************************************************************************)
(* Bounds of the model.                                                    *)
(***************************************************************************)
\* largest num_workers passed to run
MaxWorkers == 2
\* largest number of paths the glob of ImageSource::new yields
MaxItems == 1
\* Capacity of the channel.  The source creates mpsc::channel(100)
\* (main.rs:164); the model scales the capacity down so that a full channel
\* is reached with MaxWorkers workers and MaxItems items: each worker sends
\* Len(paths) + 1 messages.
ChannelCapacity == 1

Workers == 1..MaxWorkers

(***************************************************************************)
(* Paths.  A path is the sequence of the '.'-separated pieces of its file  *)
(* name: <<"shot", 1, "png">> is shot.1.png, <<"", "png">> would be .png.  *)
(* The directory part is the same for every path and plays no role in      *)
(* file_stem.                                                              *)
(***************************************************************************)
\* what glob("{directory}/*.png") can collect, in alphabetical order: a
\* directory that holds shot.1.png .. shot.k.png
GlobResults ==
    { [i \in 1..k |-> <<"shot", i, "png">>] : k \in 0..MaxItems }

\* Path::file_stem: the whole name if it begins with '.' and has no other
\* '.', otherwise the part before the final '.'
file_stem(path) ==
    IF Len(path) = 1 THEN path
    ELSE IF Len(path) = 2 /\ path[1] = "" THEN path
    ELSE SubSeq(path, 1, Len(path) - 1)

\* output_dir.join(format!("{}.txt", filename))
output_path(path) == file_stem(path) \o <<"txt">>

(***************************************************************************)
(* Annotations (u32, f32, f32, f32, f32).  The four floats are held in     *)
(* units of 10^-7; a label line prints them with six decimals.             *)
(***************************************************************************)
AnnA == <<0, 5000000, 5000000, 2000000, 3000000>>
AnnB == <<1, 1234567, 7654321, 1000004, 9999996>>

\* the Vec that process returns for the image at path when it succeeds: two
\* detections in the odd-numbered images, none in the even-numbered ones
TaskOutput(path) == IF path[2] % 2 = 1 THEN <<AnnA, AnnB>> ELSE <<>>

\* {:.6}: round to six decimals (units of 10^-6)
Fixed6(v) == (v + 5) \div 10

\* "{} {:.6} {:.6} {:.6} {:.6}"
format_line(a) == <<a[1], Fixed6(a[2]), Fixed6(a[3]), Fixed6(a[4]), Fixed6(a[5])>>

\* the lines save_labels writes for labels
label_lines(labels) == [i \in 1..Len(labels) |-> format_line(labels[i])]

(***************************************************************************)
(* SystemMessage                                                           *)
(***************************************************************************)
ResultOk(path, annotations) ==
    [tag |-> "Ok", path |-> path, annotations |-> annotations]

\* mutant: an error is swallowed into an empty result
ResultErr_swallowed(e) ==
    [tag |-> "Ok", path |-> <<"unknown", "png">>, annotations |-> <<>>]
ResultErr(e) == [tag |-> "Err", error |-> e]

\* mutant: exhaustion is signalled with an error result
Completed_as_error == ResultErr("exhausted")
Completed == [tag |-> "Completed"]
NoMessage == [tag |-> "None"]

VARIABLES
    phase,        \* where main / run stands
    paths,        \* ImageSource.paths of self.data_source
    num_workers,  \* the argument of run
    spawned,      \* workers spawned so far by the for loop of run
    pc,           \* pc[w]: where worker w stands in its loop
    index,        \* index[w]: ImageSource.index of worker w's clone
    outbox,       \* outbox[w]: the message worker w is sending
    channel,      \* the messages buffered in the mpsc channel
    net_locked,   \* TRUE while a MutexGuard of net is alive
    completed,    \* the aggregator's counter
    files,        \* the label files written under ./output/labels
    stdout,       \* what the aggregator has printed, counted per kind
    save_calls,   \* number of calls of save_labels
    save_errs,    \* number of calls of save_labels that returned Err
    outcomes,     \* outcomes[i]: the results the workers produced for paths[i]
    exit_status,  \* <<>> while the process runs, <<code>> once it has ended
    sent          \* the calls of tx.send that have returned, counted

vars == <<phase, paths, num_workers, spawned, pc, index, outbox, channel,
          net_locked, completed, files, stdout, save_calls, save_errs,
          outcomes, exit_status, sent>>

\* rx is alive from channel creation until run returns or unwinds
rx_alive == phase \in {"spawning", "aggregating"}

Init ==
    /\ phase = "new_task"
    /\ paths = <<>>
    /\ num_workers = 0
    /\ spawned = 0
    /\ pc = [w \in Workers |-> "unspawned"]
    /\ index = [w \in Workers |-> 0]
    /\ outbox = [w \in Workers |-> NoMessage]
    /\ channel = <<>>
    /\ net_locked = FALSE
    /\ completed = 0
    /\ files = [p \in {} |-> <<>>]
    /\ stdout = [saved |-> 0, errors |-> 0]
    /\ save_calls = 0
    /\ save_errs = 0
    /\ outcomes = <<>>
    /\ exit_status = <<>>
    /\ sent = [results |-> [w \in Workers |-> 0],
               completed |-> [w \in Workers |-> 0],
               refused |-> 0]

(***************************************************************************)
(* main: construction of the task and of the data source, then run.       *)
(***************************************************************************)
\* ObjectDetectionTask::new: read_net_from_darknet succeeds
NewTaskOk ==
    /\ phase = "new_task"
    /\ phase' = "new_source"
    /\ UNCHANGED <<paths, num_workers, spawned, pc, index, outbox, channel,
                   net_locked, completed, files, stdout, save_calls, save_errs,
                   outcomes,
                   exit_status, sent>>

\* ObjectDetectionTask::new: read_net_from_darknet fails, main returns Err
NewTaskErr ==
    /\ phase = "new_task"
    /\ phase' = "startup_failed"
    /\ UNCHANGED <<paths, num_workers, spawned, pc, index, outbox, channel,
                   net_locked, completed, files, stdout, save_calls, save_errs,
                   outcomes,
                   exit_status, sent>>

\* ImageSource::new: the glob is collected, index starts at 0
NewSourceOk ==
    /\ phase = "new_source"
    /\ \E ps \in GlobResults :
          /\ paths' = ps
          /\ outcomes' = [i \in 1..Len(ps) |-> {}]
    /\ phase' = "ready"
    /\ UNCHANGED <<num_workers, spawned, pc, index, outbox, channel,
                   net_locked, completed, files, stdout, save_calls, save_errs,
                   exit_status, sent>>

\* ImageSource::new: glob rejects the pattern, main returns Err
NewSourceErr ==
    /\ phase = "new_source"
    /\ phase' = "startup_failed"
    /\ UNCHANGED <<paths, num_workers, spawned, pc, index, outbox, channel,
                   net_locked, completed, files, stdout, save_calls, save_errs,
                   outcomes,
                   exit_status, sent>>

(***************************************************************************)
(* ProcessingSystem::run                                                   *)
(***************************************************************************)
\* mutant: the errors of the two constructors are not propagated by `?`
Constructed_unchecked == phase \in {"ready", "startup_failed"}
\* main reaches system.run only past both `?`: task and data source exist
Constructed == phase = "ready"

\* run(n) is entered: the channel is created.  main passes 4; run itself
\* takes any count, here up to MaxWorkers
Run(n) ==
    /\ Constructed
    /\ num_workers' = n
    /\ channel' = <<>>
    /\ phase' = "spawning"
    /\ UNCHANGED <<paths, spawned, pc, index, outbox, net_locked, completed,
                   files, stdout, save_calls, save_errs,
                   outcomes,
                   exit_status, sent>>

\* index of a fresh clone of self.data_source
CloneIndex == 0

\* one round of the for loop: clone tx, task and data_source, spawn the worker
Spawn ==
    /\ phase = "spawning"
    /\ spawned < num_workers
    /\ spawned' = spawned + 1
    /\ pc' = [pc EXCEPT ![spawned + 1] = "get_data"]
    /\ index' = [index EXCEPT ![spawned + 1] = CloneIndex]
    /\ UNCHANGED <<phase, paths, num_workers, outbox, channel, net_locked,
                   completed, files, stdout, save_calls, save_errs,
                   outcomes,
                   exit_status, sent>>

\* mutant: run drops its own sender once the workers are spawned
RunKeepsTx_dropped == FALSE
\* run creates tx with the channel, only clones it for the workers, and so
\* holds it until it returns
RunKeepsTx == TRUE

\* the senders alive: run's own and the clone each unfinished worker owns
Senders ==
    (IF RunKeepsTx THEN 1 ELSE 0)
        + Cardinality({w \in Workers : pc[w] \notin {"unspawned", "done"}})

\* rx.recv().await returns None: nothing is buffered and no sender is left
RecvNone(ch) == ch = <<>> /\ Senders = 0

\* where run stands when `while let Some(msg) = rx.recv().await` is evaluated
\* with ch buffered: the loop ends on None, else it goes on in phase ph
WhileLet(ch, ph) == IF RecvNone(ch) THEN "returned" ELSE ph

\* the for loop is over: completed = 0 and the aggregator loop starts
StartAggregator ==
    /\ phase = "spawning"
    /\ spawned = num_workers
    /\ completed' = 0
    /\ phase' = WhileLet(channel, "aggregating")
    /\ UNCHANGED <<paths, num_workers, spawned, pc, index, outbox, channel,
                   net_locked, files, stdout, save_calls, save_errs,
                   outcomes,
                   exit_status, sent>>

(***************************************************************************)
(* The worker spawned at main.rs:171-184                                   *)
(***************************************************************************)
\* the path of the item worker w fetched last (paths[self.index - 1])
current_path(w) == paths[index[w]]

\* the record of one more result produced for item i
Produced(i, result) == [outcomes EXCEPT ![i] = @ \cup {result}]
OutcomeOk(annotations) == [tag |-> "Ok", annotations |-> annotations]
OutcomeErr == [tag |-> "Err"]

\* mutant: the cursor is left where it was
Advance_stuck(i) == i
\* self.index += 1, before image::open is tried
Advance(i) == i + 1

\* get_data: index >= paths.len(), None; the loop ends, Completed is next
GetDataNone(w) ==
    /\ pc[w] = "get_data"
    /\ index[w] >= Len(paths)
    /\ outbox' = [outbox EXCEPT ![w] = Completed]
    /\ pc' = [pc EXCEPT ![w] = "send"]
    /\ UNCHANGED <<phase, paths, num_workers, spawned, index, channel,
                   net_locked, completed, files, stdout, save_calls, save_errs,
                   outcomes,
                   exit_status, sent>>

\* get_data: the cursor advances and image::open succeeds
GetDataOk(w) ==
    /\ pc[w] = "get_data"
    /\ index[w] < Len(paths)
    /\ index' = [index EXCEPT ![w] = Advance(index[w])]
    /\ pc' = [pc EXCEPT ![w] = "process"]
    /\ UNCHANGED <<phase, paths, num_workers, spawned, outbox, channel,
                   net_locked, completed, files, stdout, save_calls, save_errs,
                   outcomes,
                   exit_status, sent>>

\* mutant: a source error is dropped and the next item is requested
AfterOpenErr_skipped == "get_data"
\* the Err arm of the worker's match: the error is wrapped and sent
AfterOpenErr == "send"

\* get_data: the cursor advances and image::open fails
GetDataErr(w) ==
    /\ pc[w] = "get_data"
    /\ index[w] < Len(paths)
    /\ index' = [index EXCEPT ![w] = Advance(index[w])]
    /\ outbox' = [outbox EXCEPT ![w] = ResultErr("source")]
    /\ outcomes' = Produced(Advance(index[w]), OutcomeErr)
    /\ pc' = [pc EXCEPT ![w] = AfterOpenErr]
    /\ UNCHANGED <<phase, paths, num_workers, spawned, channel, net_locked,
                   completed, files, stdout, save_calls, save_errs,
                   exit_status, sent>>

\* detect_objects fails before the lock (from_slice, imdecode, blob_from_image)
DetectErrUnlocked(w) ==
    /\ pc[w] = "process"
    /\ outbox' = [outbox EXCEPT ![w] = ResultErr("task")]
    /\ outcomes' = Produced(index[w], OutcomeErr)
    /\ pc' = [pc EXCEPT ![w] = "send"]
    /\ UNCHANGED <<phase, paths, num_workers, spawned, index, channel,
                   net_locked, completed, files, stdout, save_calls, save_errs,
                   exit_status, sent>>

\* mutant: the net is used without waiting for the lock
LockFree_always == TRUE
\* self.net.lock() may return once no other guard is alive
LockFree == ~net_locked

\* detect_objects acquires the lock on the network
LockNet(w) ==
    /\ pc[w] = "process"
    /\ LockFree
    /\ net_locked' = TRUE
    /\ pc' = [pc EXCEPT ![w] = "locked"]
    /\ UNCHANGED <<phase, paths, num_workers, spawned, index, outbox, channel,
                   completed, files, stdout, save_calls, save_errs,
                   outcomes,
                   exit_status, sent>>

\* the message a worker builds from Ok(annotations) of process
WrapOk(path, annotations) == ResultOk(path, annotations)

\* set_input, get_unconnected_out_layers_names and forward succeed; the guard
\* is dropped on return and the result is mapped to (path, annotations)
DetectOk(w) ==
    /\ pc[w] = "locked"
    /\ outbox' = [outbox EXCEPT ![w] =
                     WrapOk(current_path(w), TaskOutput(current_path(w)))]
    /\ outcomes' = Produced(index[w], OutcomeOk(TaskOutput(current_path(w))))
    /\ net_locked' = FALSE
    /\ pc' = [pc EXCEPT ![w] = "send"]
    /\ UNCHANGED <<phase, paths, num_workers, spawned, index, channel,
                   completed, files, stdout, save_calls, save_errs,
                   exit_status, sent>>

\* mutant: the guard outlives the early return of `?`
GuardAfterErr_leaked == TRUE
\* the MutexGuard is a local of detect_objects: `?` returns and drops it
GuardAfterErr == FALSE

\* one of set_input, get_unconnected_out_layers_names, forward fails; `?`
\* returns and the guard is dropped
DetectErrLocked(w) ==
    /\ pc[w] = "locked"
    /\ outbox' = [outbox EXCEPT ![w] = ResultErr("task")]
    /\ outcomes' = Produced(index[w], OutcomeErr)
    /\ net_locked' = GuardAfterErr
    /\ pc' = [pc EXCEPT ![w] = "send"]
    /\ UNCHANGED <<phase, paths, num_workers, spawned, index, channel,
                   completed, files, stdout, save_calls, save_errs,
                   exit_status, sent>>

\* mutant: a failure Outcome ends the worker's loop
AfterSend_stop_on_err(w) ==
    IF outbox[w] = Completed \/ outbox[w].tag = "Err" THEN "done" ELSE "get_data"
\* mutant: the worker asks its source again after Completed
AfterSend_again(w) == "get_data"
\* where the worker goes once its send has returned
AfterSend(w) == IF outbox[w] = Completed THEN "done" ELSE "get_data"

\* mutant: an unbounded channel
HasPermit_unbounded == TRUE
\* tx.send(..).await completes only when the channel has a free slot
HasPermit == Len(channel) < ChannelCapacity

\* one more call of tx.send by worker w has returned, for message m
Counted(w, m) ==
    IF m = Completed
    THEN [sent EXCEPT !.completed[w] = @ + 1]
    ELSE [sent EXCEPT !.results[w] = @ + 1]

\* tx.send(..).await returns Ok: the message is buffered
SendOk(w) ==
    /\ pc[w] = "send"
    /\ rx_alive
    /\ HasPermit
    /\ channel' = Append(channel, outbox[w])
    /\ sent' = Counted(w, outbox[w])
    /\ outbox' = [outbox EXCEPT ![w] = NoMessage]
    /\ pc' = [pc EXCEPT ![w] = AfterSend(w)]
    /\ UNCHANGED <<phase, paths, num_workers, spawned, index, net_locked,
                   completed, files, stdout, save_calls, save_errs,
                   outcomes, exit_status>>

\* mutant: the Err of send is unwrapped and the worker's task dies
AfterRefused_unwrap(w) == "done"
\* `let _ =` discards the Err of send: the worker goes on as after any send
AfterRefused(w) == AfterSend(w)

\* tx.send(..).await returns Err because rx is gone; `let _ =` ignores it
SendClosed(w) ==
    /\ pc[w] = "send"
    /\ ~rx_alive
    /\ sent' = [Counted(w, outbox[w]) EXCEPT !.refused = @ + 1]
    /\ outbox' = [outbox EXCEPT ![w] = NoMessage]
    /\ pc' = [pc EXCEPT ![w] = AfterRefused(w)]
    /\ UNCHANGED <<phase, paths, num_workers, spawned, index, channel,
                   net_locked, completed, files, stdout, save_calls, save_errs,
                   outcomes, exit_status>>

\* the process has not ended: its tasks can still be polled
process_alive == exit_status = <<>>

Worker(w) ==
    /\ process_alive
    /\ \/ GetDataNone(w)
       \/ GetDataOk(w)
       \/ GetDataErr(w)
       \/ DetectErrUnlocked(w)
       \/ LockNet(w)
       \/ DetectOk(w)
       \/ DetectErrLocked(w)
       \/ SendOk(w)
       \/ SendClosed(w)

(***************************************************************************)
(* save_labels                                                             *)
(***************************************************************************)
\* the label directory once File::create(output_path) has succeeded and
\* lines have been written to the file
Written(fs, path, lines) ==
    [p \in DOMAIN fs \cup {output_path(path)} |->
        IF p = output_path(path) THEN lines ELSE fs[p]]

\* save_labels returns Ok(()): every line is written
save_labels_ok(fs, path, labels) == Written(fs, path, label_lines(labels))

\* save_labels returns Err: create_dir_all or File::create failed (nothing is
\* written), or the writeln! of line j + 1 failed after j lines
save_labels_err(fs, path, labels) ==
    {fs} \cup { Written(fs, path, SubSeq(label_lines(labels), 1, j)) :
                j \in 0..(Len(labels) - 1) }

(***************************************************************************)
(* The aggregator loop, main.rs:187-204                                    *)
(***************************************************************************)
\* rx.recv().await returns Some(msg)
CanRecv == phase = "aggregating" /\ channel # <<>>

\* ProcessingResult(Ok((path, annotations))), save_labels succeeds
RecvOkSaved ==
    /\ CanRecv
    /\ Head(channel).tag = "Ok"
    /\ channel' = Tail(channel)
    /\ files' = save_labels_ok(files, Head(channel).path, Head(channel).annotations)
    /\ save_calls' = save_calls + 1
    /\ stdout' = [stdout EXCEPT !.saved = @ + 1]
    /\ phase' = WhileLet(Tail(channel), phase)
    /\ UNCHANGED <<paths, num_workers, spawned, pc, index, outbox,
                   net_locked, completed, save_errs, outcomes,
                   exit_status, sent>>

\* mutant: the error of save_labels is only logged
AfterSaveErr_logged == "aggregating"
\* where run stands after save_labels has returned Err: expect panics
AfterSaveErr == "panicked"

\* ProcessingResult(Ok((path, annotations))), save_labels fails; the panic
\* unwinds run, rx is dropped and with it the messages still buffered
RecvOkSaveErr ==
    /\ CanRecv
    /\ Head(channel).tag = "Ok"
    /\ channel' = IF AfterSaveErr = "panicked" THEN <<>> ELSE Tail(channel)
    /\ files' \in save_labels_err(files, Head(channel).path, Head(channel).annotations)
    /\ save_calls' = save_calls + 1
    /\ save_errs' = save_errs + 1
    /\ phase' = AfterSaveErr
    /\ UNCHANGED <<paths, num_workers, spawned, pc, index, outbox, net_locked,
                   completed, stdout, outcomes,
                   exit_status, sent>>

\* mutant: a failure ends the aggregator loop
AfterErr_break(ph) == "returned"
\* the Err arm only prints: run stands where it stood
AfterErr(ph) == ph

\* ProcessingResult(Err(e)): the error is printed
RecvErr ==
    /\ CanRecv
    /\ Head(channel).tag = "Err"
    /\ channel' = Tail(channel)
    /\ stdout' = [stdout EXCEPT !.errors = @ + 1]
    /\ phase' = WhileLet(Tail(channel), AfterErr(phase))
    /\ UNCHANGED <<paths, num_workers, spawned, pc, index, outbox,
                   net_locked, completed, files, save_calls, save_errs,
                   outcomes,
                   exit_status, sent>>

\* mutant: the counter is compared one too high
AllCompleted_never(c) == c = num_workers + 1
\* mutant: the loop breaks at the first Completed
AllCompleted_first(c) == c >= 1
\* the break condition, tested after completed += 1
AllCompleted(c) == c = num_workers

\* Completed: count it and break at num_workers
RecvCompleted ==
    /\ CanRecv
    /\ Head(channel).tag = "Completed"
    /\ channel' = Tail(channel)
    /\ completed' = completed + 1
    /\ phase' = IF AllCompleted(completed + 1)
                 THEN "returned"
                 ELSE WhileLet(Tail(channel), phase)
    /\ UNCHANGED <<paths, num_workers, spawned, pc, index, outbox, net_locked,
                   files, stdout, save_calls, save_errs,
                   outcomes,
                   exit_status, sent>>

Aggregator ==
    \/ RecvOkSaved
    \/ RecvOkSaveErr
    \/ RecvErr
    \/ RecvCompleted

(***************************************************************************)
(* The end of the process: main returns or unwinds through #[tokio::main]  *)
(***************************************************************************)
\* main returned Ok(())
ExitSuccess == 0
\* main returned Err: the error of `?` is reported by the runtime of std
ExitFailure == 1
\* the main thread panicked
ExitPanic == 101

\* mutant: an error returned by main is not reflected in the status
ExitCode_err_ignored ==
    CASE phase = "returned" -> ExitSuccess
      [] phase = "startup_failed" -> ExitSuccess
      [] phase = "panicked" -> ExitPanic
\* the status the process ends with
ExitCode ==
    CASE phase = "returned" -> ExitSuccess
      [] phase = "startup_failed" -> ExitFailure
      [] phase = "panicked" -> ExitPanic

\* the tokio runtime, dropped when main ends, drops a spawned task that is
\* not being polled: finished, suspended at its send, or not polled yet
Droppable(w) ==
    \/ pc[w] \in {"unspawned", "done", "send"}
    \/ pc[w] = "get_data" /\ index[w] = CloneIndex

\* main has returned or unwound, the runtime is dropped, the process ends
Exit ==
    /\ process_alive
    /\ phase \in {"startup_failed", "returned", "panicked"}
    /\ \A w \in Workers : Droppable(w)
    /\ exit_status' = <<ExitCode>>
    /\ UNCHANGED <<phase, paths, num_workers, spawned, pc, index, outbox,
                   channel, net_locked, completed, files, stdout, save_calls,
                   save_errs, outcomes, sent>>

Next ==
    \/ NewTaskOk
    \/ NewTaskErr
    \/ NewSourceOk
    \/ NewSourceErr
    \/ \E n \in 0..MaxWorkers : Run(n)
    \/ Spawn
    \/ StartAggregator
    \/ \E w \in Workers : Worker(w)
    \/ Aggregator
    \/ Exit

Spec == Init /\ [][Next]_vars

\* the runtime keeps polling every spawned worker and the task running run
FairSpec ==
    /\ Spec
    /\ WF_vars(Spawn)
    /\ WF_vars(StartAggregator)
    /\ WF_vars(Aggregator)
    /\ \A w \in Workers : WF_vars(Worker(w))

TypeOK ==
    /\ phase \in {"new_task", "new_source", "startup_failed", "ready",
                  "spawning", "aggregating", "returned", "panicked"}
    /\ num_workers \in 0..MaxWorkers
    /\ spawned \in 0..num_workers
    /\ \A w \in Workers :
          /\ pc[w] \in {"unspawned", "get_data", "process", "locked", "send", "done"}
          /\ index[w] \in 0..Len(paths)
    /\ completed \in 0..num_workers
    /\ exit_status \in {<<>>, <<ExitSuccess>>, <<ExitFailure>>, <<ExitPanic>>}
    /\ \A w \in Workers :
          /\ sent.results[w] \in 0..Len(paths)
          /\ sent.completed[w] \in 0..1
    /\ sent.refused \in Nat

(***************************************************************************)
(* Vocabulary of the properties                                            *)
(***************************************************************************)
\* the workers of the current run
Pool == 1..num_workers

\* run(num_workers) has been entered
InRun == phase \in {"spawning", "aggregating", "returned", "panicked"}

\* worker w has fetched item i through get_data
Fetched(w, i) == pc[w] # "unspawned" /\ index[w] >= i

\* some call of process has returned Ok
task_ok == \E i \in DOMAIN outcomes : \E o \in outcomes[i] : o.tag = "Ok"

\* the sum of a count kept per worker
RECURSIVE SumUpTo(_, _)
SumUpTo(f, n) == IF n = 0 THEN 0 ELSE f[n] + SumUpTo(f, n - 1)
Total(f) == SumUpTo(f, MaxWorkers)

\* the messages the aggregator has taken from the channel
ResultsHandled == stdout.saved + stdout.errors + save_errs

\* worker w holds a fetched item whose ProcessingResult it has not sent yet
Pending(w) ==
    \/ pc[w] \in {"process", "locked"}
    \/ pc[w] = "send" /\ outbox[w] # Completed

\* the messages buffered in the channel or being sent
InFlight == {channel[k] : k \in 1..Len(channel)} \cup {outbox[w] : w \in Workers}

(***************************************************************************)
(* C1: under fair scheduling and provided no save_labels call fails, every *)
(* run(N) with N >= 1 eventually returns, having counted exactly N         *)
(* Completed messages.                                                     *)
(***************************************************************************)
C1_RunReturns ==
    [](save_errs = 0) =>
        ((phase = "spawning" /\ num_workers >= 1)
            ~> (phase = "returned" /\ completed = num_workers))

C1_Witness ==
    /\ phase = "returned"
    /\ num_workers = MaxWorkers
    /\ Len(paths) = MaxItems
    /\ Len(paths) >= 1
    /\ completed = num_workers
    /\ stdout.saved >= 1
    /\ stdout.errors >= 1

(***************************************************************************)
(* C2: every item is fetched through get_data by exactly one worker: never *)
(* by two workers, and by one once run has returned.                       *)
(***************************************************************************)
C2_EachItemClaimedOnce ==
    \A i \in 1..Len(paths) :
        /\ Cardinality({w \in Workers : Fetched(w, i)}) <= 1
        /\ phase = "returned" => Cardinality({w \in Workers : Fetched(w, i)}) = 1

(***************************************************************************)
(* C3: the channel never buffers more than its capacity; a worker whose    *)
(* send finds the channel full while rx is alive stays in its send with    *)
(* its message, and a send that returns while rx is alive has appended     *)
(* the worker's message to the channel.                                    *)
(***************************************************************************)
C3_Backpressure ==
    /\ [](Len(channel) <= ChannelCapacity)
    /\ [][\A w \in Workers :
            (pc[w] = "send" /\ rx_alive) =>
                /\ Len(channel) >= ChannelCapacity =>
                      (pc'[w] = "send" /\ outbox'[w] = outbox[w])
                /\ outbox'[w] # outbox[w] =>
                      channel' = Append(channel, outbox[w])]_vars

C3_Witness ==
    /\ rx_alive
    /\ Len(channel) = ChannelCapacity
    /\ \E w \in Workers : pc[w] = "send" /\ outbox[w].tag = "Ok"

(***************************************************************************)
(* C4: run has returned only if every worker of the pool has exhausted its *)
(* data source and has sent its Completed message.                         *)
(***************************************************************************)
C4_ReturnOnlyWhenAllDone ==
    phase = "returned" =>
        \A w \in Pool :
            /\ pc[w] = "done"
            /\ index[w] = Len(paths)
            /\ outbox[w] = NoMessage

C4_Witness ==
    /\ phase = "returned"
    /\ num_workers = MaxWorkers
    /\ Len(paths) = MaxItems
    /\ \A w \in Pool : pc[w] = "done"

(***************************************************************************)
(* C5: a save_labels call that returns Err ends run by a panic in that     *)
(* very step, without the item being reported as saved; from then on the   *)
(* aggregator receives nothing more and run never returns normally.        *)
(***************************************************************************)
C5_SaveErrIsFatal ==
    [][/\ save_errs' > save_errs => (phase' = "panicked" /\ stdout' = stdout)
       /\ save_errs > 0 =>
             /\ phase' = "panicked"
             /\ channel' = channel
             /\ completed' = completed
             /\ files' = files
             /\ stdout' = stdout
             /\ save_calls' = save_calls]_vars

C5_Witness ==
    /\ phase = "panicked"
    /\ save_errs = 1
    /\ stdout.saved < save_calls
    /\ \E p \in DOMAIN files : Len(files[p]) = 1
    /\ \E w \in Pool : pc[w] = "send" /\ outbox[w].tag = "Ok"

(***************************************************************************)
(* C6: a worker leaves its loop (builds Completed) only with its cursor at *)
(* the end of paths; its cursor never moves back; once the send of a       *)
(* failure Outcome returns the worker is back at get_data, the failure     *)
(* having been buffered if rx is alive; and the step that produces or      *)
(* reports a failure changes neither another worker's position nor the     *)
(* phase of run.                                                           *)
(***************************************************************************)
C6_OnlyExhaustionStops ==
    [][\A w \in Workers :
          /\ (outbox'[w] = Completed /\ outbox[w] # Completed) =>
                (index[w] = Len(paths) /\ index'[w] = index[w])
          /\ (pc'[w] = "done" /\ pc[w] # "done") => outbox[w] = Completed
          /\ index'[w] >= index[w]
          /\ (pc[w] = "send" /\ outbox[w].tag = "Err" /\ pc'[w] # pc[w]) =>
                /\ pc'[w] = "get_data"
                /\ rx_alive => channel' = Append(channel, outbox[w])
          /\ (outbox'[w].tag = "Err" /\ outbox[w].tag # "Err") =>
                /\ phase' = phase
                /\ pc'[w] = "send"
                /\ \A v \in Workers \ {w} : pc'[v] = pc[v]
          /\ stdout'.errors # stdout.errors =>
                (phase' = phase /\ pc' = pc)]_vars

C6_Witness ==
    /\ phase = "aggregating"
    /\ num_workers = MaxWorkers
    /\ stdout.errors >= 1
    /\ \E w, v \in Pool :
          /\ w # v
          /\ pc[w] = "done"
          /\ pc[v] = "send"
          /\ outbox[v] = ResultOk(paths[1], TaskOutput(paths[1]))

(***************************************************************************)
(* C7: in a run over no paths nothing but Completed is ever sent, nothing  *)
(* is saved or reported, and under fair scheduling a run with N >= 1       *)
(* returns with every worker done.                                         *)
(***************************************************************************)
C7_EmptyInput ==
    /\ []((InRun /\ Len(paths) = 0) =>
            /\ \A m \in InFlight : m.tag \in {"Completed", "None"}
            /\ save_calls = 0
            /\ stdout = [saved |-> 0, errors |-> 0]
            /\ DOMAIN files = {})
    /\ (phase = "spawning" /\ Len(paths) = 0 /\ num_workers >= 1)
          ~> (phase = "returned" /\ \A w \in Pool : pc[w] = "done")

C7_Witness ==
    /\ phase = "returned"
    /\ Len(paths) = 0
    /\ num_workers = MaxWorkers
    /\ completed = MaxWorkers

(***************************************************************************)
(* C8: as long as no call of process has returned Ok, no success message   *)
(* is in the channel or being sent and save_labels has not been called;    *)
(* every failure message the aggregator receives is printed; and if        *)
(* process never returns Ok, a fairly scheduled run with N >= 1 returns    *)
(* after N Completed messages.                                             *)
(***************************************************************************)
C8_AlwaysFailingTask ==
    /\ [](~task_ok =>
            /\ \A m \in InFlight : m.tag # "Ok"
            /\ save_calls = 0
            /\ DOMAIN files = {})
    /\ [][(channel # <<>> /\ Head(channel).tag = "Err" /\ channel' = Tail(channel))
             => stdout'.errors = stdout.errors + 1]_vars
    /\ [](~task_ok) =>
          ((phase = "spawning" /\ num_workers >= 1)
              ~> (phase = "returned" /\ completed = num_workers))

C8_Witness ==
    /\ phase = "aggregating"
    /\ ~task_ok
    /\ num_workers = MaxWorkers
    /\ stdout.errors >= 1
    /\ completed >= 1
    /\ \E w \in Pool : pc[w] = "send" /\ outbox[w] = ResultErr("task")

(***************************************************************************)
(* C9: at most one worker is between acquiring and releasing the net lock, *)
(* and net is locked exactly while some worker is.                         *)
(***************************************************************************)
C9_NetMutex ==
    /\ Cardinality({w \in Workers : pc[w] = "locked"}) <= 1
    /\ net_locked <=> (\E w \in Workers : pc[w] = "locked")

C9_Witness ==
    \E w, v \in Pool :
        /\ w # v
        /\ pc[w] = "locked"
        /\ pc[v] = "process"
        /\ index[w] = index[v]

(***************************************************************************)
(* C10: once run has returned, an input has its label file exactly if its  *)
(* Outcome was a success, the file then holds one line per Annotation of   *)
(* that Outcome in order, and there is one file per successful input.      *)
(***************************************************************************)
C10_OneFilePerSuccess ==
    phase = "returned" =>
        /\ \A i \in 1..Len(paths) : \A o \in outcomes[i] :
              /\ o.tag = "Ok" =>
                    /\ output_path(paths[i]) \in DOMAIN files
                    /\ files[output_path(paths[i])] = label_lines(o.annotations)
                    /\ Len(files[output_path(paths[i])]) = Len(o.annotations)
              /\ o.tag = "Err" => output_path(paths[i]) \notin DOMAIN files
        /\ Cardinality(DOMAIN files) =
              Cardinality({i \in 1..Len(paths) : \E o \in outcomes[i] : o.tag = "Ok"})

(***************************************************************************)
(* C11: a failure of ObjectDetectionTask::new or of ImageSource::new is    *)
(* fatal before any worker exists: in the failed state no worker has been  *)
(* spawned, no send was ever made, the channel holds nothing, nothing was  *)
(* persisted, and the only thing that still happens is the end of the      *)
(* process.                                                                *)
(***************************************************************************)
C11_StartupErrIsFatal ==
    /\ [](phase = "startup_failed" =>
            /\ spawned = 0
            /\ \A w \in Workers :
                  /\ pc[w] = "unspawned"
                  /\ outbox[w] = NoMessage
                  /\ sent.results[w] = 0
                  /\ sent.completed[w] = 0
            /\ channel = <<>>
            /\ DOMAIN files = {}
            /\ save_calls = 0
            /\ stdout = [saved |-> 0, errors |-> 0])
    /\ [][phase = "startup_failed" =>
            /\ phase' = "startup_failed"
            /\ UNCHANGED <<spawned, pc, outbox, sent, channel, files,
                           save_calls, stdout>>]_vars

C11_Witness ==
    /\ phase = "startup_failed"
    /\ exit_status = <<ExitFailure>>

(***************************************************************************)
(* C12 as stated: the process ends with a non-zero status exactly when     *)
(* the construction of the task or of the data source failed; every other  *)
(* ended execution, a failed save_labels included, has status zero.        *)
(***************************************************************************)
C12_NonZeroOnlyAtStartup ==
    exit_status # <<>> =>
        (exit_status[1] # 0 <=> phase = "startup_failed")

(***************************************************************************)
(* C12, amended: the process ends with a non-zero status exactly when the  *)
(* construction of the task or of the data source failed or a call of      *)
(* save_labels failed; it ends with status zero in every other ended       *)
(* execution, those with failed get_data or process calls included, and    *)
(* then run has returned.                                                  *)
(***************************************************************************)
C12_ExitStatus ==
    exit_status # <<>> =>
        /\ exit_status[1] # 0 <=> (phase = "startup_failed" \/ save_errs > 0)
        /\ exit_status[1] = 0 => phase = "returned"
        /\ phase = "startup_failed" => save_errs = 0

C12_Witness ==
    /\ exit_status = <<ExitSuccess>>
    /\ stdout.errors >= 1
    /\ save_errs = 0

(***************************************************************************)
(* C13: a worker builds Completed only in the step in which get_data       *)
(* returns None; it sends Completed at most once, and exactly once by the  *)
(* time its loop has ended; the send of Completed ends the worker, so      *)
(* nothing is sent by it afterwards.                                       *)
(***************************************************************************)
C13_CompletedOnceAndLast ==
    /\ [](\A w \in Workers :
            /\ sent.completed[w] <= 1
            /\ sent.completed[w] = 1 <=> pc[w] = "done"
            /\ pc[w] = "done" => outbox[w] = NoMessage
            /\ outbox[w] = Completed => pc[w] = "send" /\ index[w] = Len(paths))
    /\ [][\A w \in Workers :
            /\ (outbox'[w] = Completed /\ outbox[w] # Completed) =>
                   /\ pc[w] = "get_data"
                   /\ index[w] >= Len(paths)
                   /\ index'[w] = index[w]
            /\ sent'.completed[w] # sent.completed[w] =>
                   /\ outbox[w] = Completed
                   /\ pc'[w] = "done"
            /\ sent.completed[w] = 1 =>
                   /\ sent'.results[w] = sent.results[w]
                   /\ sent'.completed[w] = 1
                   /\ outbox'[w] = NoMessage
                   /\ pc'[w] = "done"]_vars

C13_Witness ==
    \E w \in Workers :
        /\ pc[w] = "done"
        /\ sent.completed[w] = 1
        /\ sent.results[w] = MaxItems
        /\ \E v \in Workers : pc[v] \in {"process", "locked"}

C15_OneResultPerFetch ==
    /\ [](\A w \in Workers :
            /\ sent.results[w] = index[w] - (IF Pending(w) THEN 1 ELSE 0)
            /\ pc[w] = "get_data" => sent.results[w] = index[w]
            /\ outbox[w].tag = "Ok" => outbox[w].path = paths[index[w]])
    /\ [](phase # "panicked" =>
            Total(sent.results) + Total(sent.completed) - sent.refused
                = Len(channel) + ResultsHandled + completed)
    /\ [](rx_alive => sent.refused = 0)
    /\ [][\A w \in Workers :
            /\ index'[w] # index[w] => sent.results[w] = index[w]
            /\ sent'.results[w] # sent.results[w] =>
                   /\ sent'.results[w] = sent.results[w] + 1
                   /\ outbox[w].tag \in {"Ok", "Err"}
                   /\ index'[w] = index[w]
                   /\ rx_alive => channel' = Append(channel, outbox[w])]_vars

C15_Witness ==
    /\ phase = "aggregating"
    /\ \E w \in Workers :
          /\ pc[w] = "get_data"
          /\ index[w] = MaxItems
          /\ sent.results[w] = MaxItems
    /\ ResultsHandled >= 1

(***************************************************************************)
(* C16: the step in which the aggregator takes a failure result from the   *)
(* channel prints one error and changes nothing else of the aggregator:    *)
(* the completion counter, the label files, the counts of save_labels      *)
(* calls and the "saved" lines stay as they were, and run is still in its  *)
(* loop, at the next message.                                              *)
(***************************************************************************)
C16_ErrOnlyReported ==
    [][(CanRecv /\ Head(channel).tag = "Err" /\ channel' = Tail(channel)) =>
          /\ stdout' = [stdout EXCEPT !.errors = @ + 1]
          /\ completed' = completed
          /\ files' = files
          /\ save_calls' = save_calls
          /\ save_errs' = save_errs
          /\ phase' = "aggregating"
          /\ UNCHANGED <<pc, index, outbox, net_locked, sent, exit_status,
                         outcomes>>]_vars

C16_Witness ==
    /\ phase = "aggregating"
    /\ stdout.errors >= 1
    /\ stdout.saved >= 1
    /\ completed >= 1
    /\ channel # <<>>

(***************************************************************************)
(* C17 as stated: once the receiver is gone every worker still runs its    *)
(* loop to exhaustion and terminates, so an execution that has ended after *)
(* the receiver was dropped has every worker of the pool finished.         *)
(***************************************************************************)
C17_WorkersRunToExhaustion ==
    (InRun /\ ~rx_alive /\ ~process_alive) =>
        \A w \in Pool : pc[w] = "done"

(***************************************************************************)
(* C17, amended: once the receiver is gone, a send is never blocked while  *)
(* the process runs, whatever the channel holds; each send returns an      *)
(* error that is counted as refused and changes nothing but the worker's   *)
(* own position, which moves on to get_data, or to the end after           *)
(* Completed.  Under fair scheduling, after the panic of the aggregator    *)
(* every worker finishes its loop unless the process ends first.           *)
(***************************************************************************)
C17_RefusedSendIgnored ==
    /\ [](\A w \in Workers :
            (pc[w] = "send" /\ ~rx_alive /\ process_alive) =>
                ENABLED SendClosed(w))
    /\ [][\A w \in Workers :
            (pc[w] = "send" /\ ~rx_alive /\ pc'[w] # pc[w]) =>
                /\ sent'.refused = sent.refused + 1
                /\ channel' = channel
                /\ outbox'[w] = NoMessage
                /\ pc'[w] = IF outbox[w] = Completed THEN "done" ELSE "get_data"
                /\ UNCHANGED <<phase, index, net_locked, files, stdout>>]_vars
    /\ (phase = "panicked") ~>
           (~process_alive \/ \A w \in Pool : pc[w] = "done")

C17_Witness ==
    /\ phase = "panicked"
    /\ num_workers = MaxWorkers
    /\ sent.refused > MaxWorkers
    /\ \A w \in Pool : pc[w] = "done"

(***************************************************************************)
(* C18: the lock on the network is held only inside detect_objects: when   *)
(* no worker is between lock() and the return of detect_objects the lock   *)
(* is free, every return of detect_objects, Ok or Err, frees it, and a     *)
(* worker that calls lock() while no worker is inside is let in.           *)
(***************************************************************************)
C18_LockReleasedOnEveryExit ==
    /\ []((\A w \in Workers : pc[w] # "locked") => ~net_locked)
    /\ [](\A w \in Workers :
            (pc[w] = "process" /\ process_alive
                /\ \A v \in Workers : pc[v] # "locked") => ENABLED LockNet(w))
    /\ [][\A w \in Workers :
            (pc[w] = "locked" /\ pc'[w] # "locked") =>
                /\ ~net_locked'
                /\ pc'[w] = "send"
                /\ outbox'[w].tag \in {"Ok", "Err"}]_vars

C18_Witness ==
    \E w, v \in Workers :
        /\ pc[w] = "send"
        /\ outbox[w] = ResultErr("task")
        /\ pc[v] = "locked"
        /\ net_locked

C20_OnlyTheCounterEndsTheLoop ==
    /\ [](rx_alive => Senders >= 1 /\ ~RecvNone(channel))
    /\ [][(phase' = "returned" /\ phase # "returned") =>
            /\ CanRecv
            /\ Head(channel) = Completed
            /\ num_workers >= 1
            /\ completed = num_workers - 1
            /\ completed' = num_workers]_vars
    /\ []((InRun /\ num_workers = 0) =>
            /\ rx_alive
            /\ process_alive
            /\ channel = <<>>
            /\ completed = 0
            /\ \A w \in Workers :
                  /\ pc[w] = "unspawned"
                  /\ outbox[w] = NoMessage
                  /\ sent.completed[w] = 0)
    /\ [][(phase = "aggregating" /\ num_workers = 0) => UNCHANGED vars]_vars

C20_Witness ==
    /\ phase = "aggregating"
    /\ num_workers = 0
    /\ channel = <<>>
    /\ Len(paths) = MaxItems
====
